---- MODULE Spec2Model ----
(***************************************************************************)
(* env-typed-guard: defineEnv(schema, config) reads process.env, coerces   *)
(* each schema field to its declared type, applies defaults and custom     *)
(* validators, and returns the typed mapping (src/src/defineEnv.ts,        *)
(* lines 176-360, the revision that uses the Logger class).                *)
(*                                                                         *)
(* A JavaScript string is modelled as a sequence of tokens (Seq(STRING)).  *)
(* Raw environment texts are spelled one character per token, so length,   *)
(* lower-casing and numeric conversion work on characters; the literal     *)
(* parts of a template string are single tokens.  Concatenation is \o.     *)
(***************************************************************************)
EXTENDS Integers, Sequences, FiniteSets, TLC

\* Largest number of fields in a multi-field schema.
MaxFields == 2

-----------------------------------------------------------------------------
(* JavaScript values *)

Undefined == [t |-> "undefined", s |-> <<>>, n |-> 0, b |-> FALSE, c |-> ""]
Str(text) == [t |-> "string", s |-> text, n |-> 0, b |-> FALSE, c |-> ""]
Num(k) == [t |-> "number", s |-> <<>>, n |-> k, b |-> FALSE, c |-> "finite"]
Infinity == [t |-> "number", s |-> <<>>, n |-> 0, b |-> FALSE, c |-> "Infinity"]
NaN == [t |-> "number", s |-> <<>>, n |-> 0, b |-> FALSE, c |-> "NaN"]
Bool(v) == [t |-> "boolean", s |-> <<>>, n |-> 0, b |-> v, c |-> ""]

Digits == <<"0", "1", "2", "3", "4", "5", "6", "7", "8", "9">>

IsDigit(ch) == \E d \in 1..10 : Digits[d] = ch

DigitValue(ch) == (CHOOSE d \in 1..10 : Digits[d] = ch) - 1

IsWhiteSpace(ch) == ch \in {" ", "\t", "\n", "\r"}

RECURSIVE TrimStart(_)
TrimStart(text) ==
    IF text # <<>> /\ IsWhiteSpace(Head(text)) THEN TrimStart(Tail(text)) ELSE text

RECURSIVE TrimEnd(_)
TrimEnd(text) ==
    IF text # <<>> /\ IsWhiteSpace(text[Len(text)])
    THEN TrimEnd(SubSeq(text, 1, Len(text) - 1))
    ELSE text

RECURSIVE DecimalValue(_)
DecimalValue(text) ==
    IF text = <<>> THEN 0
    ELSE 10 * DecimalValue(SubSeq(text, 1, Len(text) - 1)) + DigitValue(text[Len(text)])

RECURSIVE DecimalDigits(_)
DecimalDigits(k) ==
    IF k < 10 THEN <<Digits[k + 1]>>
    ELSE DecimalDigits(k \div 10) \o <<Digits[(k % 10) + 1]>>

\* Number(value): StringToNumber on texts made of digits, letters and white
\* space (no sign, decimal point, exponent or radix prefix occurs in RawTexts).
\* White space is trimmed; the empty text is 0; "Infinity" is Infinity; a run of
\* digits is its decimal value; anything else is NaN.
ToNumber(value) ==
    LET body == TrimEnd(TrimStart(value)) IN
    IF body = <<>> THEN Num(0)
    ELSE IF body = <<"I", "n", "f", "i", "n", "i", "t", "y">> THEN Infinity
    ELSE IF \A p \in 1..Len(body) : IsDigit(body[p]) THEN Num(DecimalValue(body))
    ELSE NaN

\* isNaN(num)
isNaN(num) == num.t = "number" /\ num.c = "NaN"

Upper == <<"A", "B", "C", "D", "E", "F", "G", "H", "I", "J", "K", "L", "M",
           "N", "O", "P", "Q", "R", "S", "T", "U", "V", "W", "X", "Y", "Z">>

Lower == <<"a", "b", "c", "d", "e", "f", "g", "h", "i", "j", "k", "l", "m",
           "n", "o", "p", "q", "r", "s", "t", "u", "v", "w", "x", "y", "z">>

LowerChar(ch) ==
    IF \E p \in 1..26 : Upper[p] = ch
    THEN Lower[CHOOSE p \in 1..26 : Upper[p] = ch]
    ELSE ch

\* Mutant of toLowerCase: the text is compared as it is written.
toLowerCaseIdentity(value) == value

\* value.toLowerCase()
toLowerCase(value) == [p \in 1..Len(value) |-> LowerChar(value[p])]

\* String(v), as a template literal `${v}` renders a value.
StringOf(v) ==
    CASE v.t = "string" -> v.s
      [] v.t = "number" ->
            IF v.c = "finite" THEN DecimalDigits(v.n) ELSE <<v.c>>
      [] v.t = "boolean" -> IF v.b THEN <<"true">> ELSE <<"false">>
      [] OTHER -> <<"undefined">>

\* items.join(sep) over an array of texts
RECURSIVE JoinTexts(_, _)
JoinTexts(items, sep) ==
    IF items = <<>> THEN <<>>
    ELSE IF Len(items) = 1 THEN items[1]
    ELSE items[1] \o sep \o JoinTexts(Tail(items), sep)

-----------------------------------------------------------------------------
(* Schema, environment and config *)

\* The keys of a schema, in Object.entries order.
KeyNames == <<"PORT", "NODE_ENV", "DEBUG", "HOST">>

\* EnvSchemaValueType.  hasDefault / hasValidValues say whether the property is
\* in the object at all ("defaultValue" in schemaValue); validate = "none" is a
\* field without a validate property.
FieldSpec(type, hasDefault, defaultValue, hasValidValues, validValues, validator) ==
    [type |-> type, hasDefault |-> hasDefault, defaultValue |-> defaultValue,
     hasValidValues |-> hasValidValues, validValues |-> validValues,
     validate |-> validator]

Dev == <<"d", "e", "v">>

Prod == <<"p", "r", "o", "d">>

\* The type / validValues shapes of a field: the four declared kinds, an enum that
\* omits validValues, an enum with a numeric member, and the undeclared kind
\* "json" that the example script passes.
Shapes ==
    { [type |-> ty, hasValidValues |-> FALSE, validValues |-> <<>>] :
          ty \in {"string", "number", "boolean", "enum", "json"} }
    \cup { [type |-> "enum", hasValidValues |-> TRUE, validValues |-> vv] :
          vv \in { <<Str(Dev), Str(Prod)>>, <<Num(1), Str(Dev)>> } }

\* defaultValue: not in the object, explicitly undefined, a string that is
\* neither numeric nor an enum member, and the falsy boolean.
Defaults ==
    { [hasDefault |-> FALSE, defaultValue |-> Undefined],
      [hasDefault |-> TRUE, defaultValue |-> Undefined],
      [hasDefault |-> TRUE, defaultValue |-> Str(<<"z", "z">>)],
      [hasDefault |-> TRUE, defaultValue |-> Bool(FALSE)] }

Validators ==
    {"none", "true", "false", "message", "empty", "undefined", "throwError", "throwOther"}

\* process.env[key]: undefined when the key is absent, otherwise a string.
RawTexts ==
    { <<>>, <<"0">>, <<"1">>, <<"4", "2">>, <<"T", "R", "U", "E">>,
      <<"F", "a", "l", "s", "e">>, Dev, <<" ">>,
      <<"I", "n", "f", "i", "n", "i", "t", "y">> }

RawValues == {Undefined} \cup {Str(text) : text \in RawTexts}

AllFieldSpecs ==
    { FieldSpec(sh.type, d.hasDefault, d.defaultValue, sh.hasValidValues,
                sh.validValues, v) :
          sh \in Shapes, d \in Defaults, v \in Validators }

\* The fields of multi-field schemas: every way a field can end (default,
\* required error, coercion error, validator error, success).
CoreFieldSpecs ==
    { fs \in AllFieldSpecs :
          /\ fs.type \in {"string", "number"}
          /\ fs.defaultValue \in {Undefined, Str(<<"z", "z">>)}
          /\ fs.hasDefault = (fs.defaultValue # Undefined)
          /\ fs.validate \in {"none", "false"} }

CoreRawValues == {Undefined, Str(<<"4", "2">>), Str(Dev)}

\* EnvConfigType; "unset" is an omitted option.
Configs == [throw : {"unset", "true", "false"}, debugMode : {"unset", "true", "false"}]

KeysOf(sch) == {KeyNames[k] : k \in 1..Len(sch)}

VARIABLES
    schema,        \* the schema argument, as the sequence Object.entries yields
    env,           \* process.env restricted to the schema's keys
    config,        \* the config argument
    pc,            \* "loop" | "debug" | "report" | "returned" | "thrown"
    i,             \* position of the for-of loop (next entry to process)
    final,         \* const final: Record<string, any>
    errors,        \* const errors: string[]
    logEntries,    \* const logEntries: string[]
    calls,         \* the validator invocations made so far: <<key, argument>>
    console,       \* the lines written with console.log
    loggerResult,  \* Logger.result, the singleton logger's buffer
    thrown,        \* the exception that left defineEnv
    result,        \* the mapping defineEnv returned
    call,          \* which defineEnv call of the program is running: 1 or 2
    firstCall      \* how the first call ended, once a second one has begun

vars == <<schema, env, config, pc, i, final, errors, logEntries, calls, console,
          loggerResult, thrown, result, call, firstCall>>

-----------------------------------------------------------------------------
(* Messages *)

errorPrefix == "[env-typed-guard] "

RequiredMsg(key) ==
    <<errorPrefix, " ", "Environment variable \"", key, "\" ", "is required but not set">>

EnumMissingMsg(key) == <<"Enum \"", key, "\" missing validValues">>

MustBeOneOfMsg(key, validValues) ==
    <<errorPrefix, " ", "Environment variable \"", key, "\" ", "must be one of: ">>
        \o JoinTexts([p \in 1..Len(validValues) |-> StringOf(validValues[p])], <<", ">>)

FailedValidationMsg(key) ==
    <<errorPrefix, " ", "Environment variable \"", key, "\" ", "failed validation">>

ValidationErrorMsg(key, validationResult) ==
    <<errorPrefix, " ", "Environment variable \"", key, "\" ", "validation error: ">>
        \o validationResult

NumberMsg(value, key) ==
    <<errorPrefix, " ", "Cannot parse \"">> \o value
        \o <<"\" as number", " for \"", key, "\".">>

BooleanMsg(value, key) ==
    <<errorPrefix, " ", "Cannot parse \"">> \o value
        \o <<"\" as boolean", " for \"", key, "\". Expected: true, false, 1, or 0">>

UnknownTypeMsg(type, key) ==
    <<errorPrefix, " ", "Unknown type \"", type, "\" for \"", key, "\".">>

UnknownErrorMsg(key) == <<"Unknown error parsing \"", key, "\"">>

DefaultEntry(key, defaultValue) ==
    <<key, "=">> \o StringOf(defaultValue) \o <<" (using default)">>

SuccessEntry(key, value) == <<key, "=">> \o StringOf(value)

\* Mutant of AggregateMsg: the messages joined with ", " on one line.
AggregateMsgOneLine(errs) ==
    <<"Environment validation failed:", "\n">>
        \o JoinTexts([p \in 1..Len(errs) |-> <<"  * ">> \o errs[p]], <<", ">>)

\* `Environment validation failed:\n${errors.map(e => `  * ${e}`).join("\n")}`
AggregateMsg(errs) ==
    <<"Environment validation failed:", "\n">>
        \o JoinTexts([p \in 1..Len(errs) |-> <<"  * ">> \o errs[p]], <<"\n">>)

-----------------------------------------------------------------------------
(* Exceptions and the results of calls that may throw *)

NoExc == [raised |-> FALSE, isError |-> FALSE, message |-> <<>>]

\* new Error(msg)
NewError(msg) == [raised |-> TRUE, isError |-> TRUE, message |-> msg]

\* a thrown value that is not an Error instance
NonError == [raised |-> TRUE, isError |-> FALSE, message |-> <<"thrown value">>]

Returns(value) == [exc |-> NoExc, value |-> value]

\* const fail = (msg) => { throw new Error(msg); }
fail(msg) == [exc |-> NewError(msg), value |-> Undefined]

\* Mutant of parseValue: a type the switch does not know is handled as a string.
parseValuePermissive(value, key, schemaValue) ==
    CASE schemaValue.type = "number" ->
            LET num == ToNumber(value) IN
            IF isNaN(num) THEN fail(NumberMsg(value, key)) ELSE Returns(num)
      [] schemaValue.type = "boolean" ->
            LET lowerValue == toLowerCase(value) IN
            IF lowerValue \in {<<"t", "r", "u", "e">>, <<"1">>} THEN Returns(Bool(TRUE))
            ELSE IF lowerValue \in {<<"f", "a", "l", "s", "e">>, <<"0">>}
                 THEN Returns(Bool(FALSE))
            ELSE fail(BooleanMsg(value, key))
      [] OTHER -> Returns(Str(value))

\* parseValue({ value, key, schemaValue, config }): the switch on schemaValue.type
parseValue(value, key, schemaValue) ==
    CASE schemaValue.type = "string" -> Returns(Str(value))
      [] schemaValue.type = "number" ->
            LET num == ToNumber(value) IN
            IF isNaN(num) THEN fail(NumberMsg(value, key)) ELSE Returns(num)
      [] schemaValue.type = "boolean" ->
            LET lowerValue == toLowerCase(value) IN
            IF lowerValue \in {<<"t", "r", "u", "e">>, <<"1">>} THEN Returns(Bool(TRUE))
            ELSE IF lowerValue \in {<<"f", "a", "l", "s", "e">>, <<"0">>}
                 THEN Returns(Bool(FALSE))
            ELSE fail(BooleanMsg(value, key))
      [] OTHER -> fail(UnknownTypeMsg(schemaValue.type, key))

\* schemaValue.validate(value) for the validators of the model: each is a
\* function of the caller's, named by what it does.
Validate(validator, value) ==
    CASE validator = "true" -> Returns(Bool(TRUE))
      [] validator = "false" -> Returns(Bool(FALSE))
      [] validator = "message" -> Returns(Str(<<"too short">>))
      [] validator = "empty" -> Returns(Str(<<>>))
      [] validator = "undefined" -> Returns(Undefined)
      [] validator = "throwError" -> fail(<<"validator crashed">>)
      [] OTHER -> [exc |-> NonError, value |-> Undefined]

-----------------------------------------------------------------------------
(* defineEnv: the body of the for-of loop *)

\* config.throw !== false
Throws(cfg) == cfg.throw # "false"

\* Mutant of DebugMode: debug logging is on unless it is switched off.
DebugModeByDefault(cfg) == cfg.debugMode # "false"

\* config.debugMode, as a condition
DebugMode(cfg) == cfg.debugMode = "true"

\* Mutant of IsUnset: only an absent key is unset (the empty string is a value).
IsUnsetAbsentOnly(rawValue) == rawValue = Undefined

\* rawValue === undefined || rawValue.length === 0
IsUnset(rawValue) == rawValue = Undefined \/ Len(rawValue.s) = 0

\* Mutant of HasDefault: the default is tested for truthiness.
HasDefaultTruthy(schemaValue) ==
    /\ schemaValue.hasDefault
    /\ schemaValue.defaultValue \notin {Undefined, Bool(FALSE), Str(<<>>), Num(0), NaN}

\* Mutant of HasDefault: only the presence of the property is tested.
HasDefaultIn(schemaValue) == schemaValue.hasDefault

\* "defaultValue" in schemaValue && schemaValue.defaultValue !== undefined
HasDefault(schemaValue) == schemaValue.hasDefault /\ schemaValue.defaultValue # Undefined

\* Mutant of includes: members are compared with == (a number matches its text).
includesLoosely(validValues, rawValue) ==
    \E p \in 1..Len(validValues) : StringOf(validValues[p]) = StringOf(rawValue)

\* validValues.includes(rawValue)
includes(validValues, rawValue) == \E p \in 1..Len(validValues) : validValues[p] = rawValue

\* final[key] = value
Put(obj, key, value) ==
    [k \in DOMAIN obj \cup {key} |-> IF k = key THEN value ELSE obj[k]]

\* Mutant of Reject: a rejected field resets the mapping built so far.
RejectClearing(cfg, key, st, msg) ==
    IF cfg.throw # "false" THEN [st EXCEPT !.exc = [raised |-> TRUE, isError |-> TRUE,
                                                   message |-> msg]]
    ELSE [st EXCEPT !.errors = Append(@, msg), !.final = [k \in {key} |-> Undefined]]

\* Mutant of Reject: the message is accumulated in either mode, never thrown.
RejectAccumulate(cfg, key, st, msg) ==
    [st EXCEPT !.errors = Append(@, msg),
               !.final = [k \in DOMAIN @ \cup {key} |-> IF k = key THEN Undefined ELSE @[k]]]

\* if (config.throw !== false) throw new Error(msg);
\* errors.push(msg); final[key] = undefined; continue;
Reject(cfg, key, st, msg) ==
    IF Throws(cfg) THEN [st EXCEPT !.exc = NewError(msg)]
    ELSE [st EXCEPT !.errors = Append(@, msg), !.final = Put(@, key, Undefined)]

\* Mutant of UseDefault: the entry of a defaulted field is not annotated.
UseDefaultPlainEntry(key, schemaValue, st) ==
    [st EXCEPT !.final = Put(@, key, schemaValue.defaultValue),
               !.logEntries = Append(@, SuccessEntry(key, schemaValue.defaultValue))]

\* final[key] = schemaValue.defaultValue; logEntries.push(...); continue;
UseDefault(key, schemaValue, st) ==
    [st EXCEPT !.final = Put(@, key, schemaValue.defaultValue),
               !.logEntries = Append(@, DefaultEntry(key, schemaValue.defaultValue))]

\* Mutant of ValidateStage: a returned string counts as an error only when it is
\* not empty (if (validationResult) instead of typeof ... === "string").
ValidateStageTruthyString(key, schemaValue, cfg, st) ==
    IF schemaValue.validate = "none"
    THEN [st EXCEPT !.logEntries = Append(@, SuccessEntry(key, st.final[key]))]
    ELSE
        LET validationResult == Validate(schemaValue.validate, st.final[key])
            called == [st EXCEPT !.calls = Append(@, <<key, st.final[key]>>)]
        IN  IF validationResult.exc.raised
            THEN [called EXCEPT !.exc = validationResult.exc]
            ELSE IF validationResult.value = Bool(FALSE)
            THEN Reject(cfg, key, called, FailedValidationMsg(key))
            ELSE IF validationResult.value.t = "string" /\ validationResult.value.s # <<>>
            THEN Reject(cfg, key, called, ValidationErrorMsg(key, validationResult.value.s))
            ELSE [called EXCEPT
                     !.logEntries = Append(@, SuccessEntry(key, st.final[key]))]

\* The custom validator check and the success log entry.
ValidateStage(key, schemaValue, cfg, st) ==
    IF schemaValue.validate = "none"
    THEN [st EXCEPT !.logEntries = Append(@, SuccessEntry(key, st.final[key]))]
    ELSE
        LET validationResult == Validate(schemaValue.validate, st.final[key])
            called == [st EXCEPT !.calls = Append(@, <<key, st.final[key]>>)]
        IN  IF validationResult.exc.raised
            THEN [called EXCEPT !.exc = validationResult.exc]
            ELSE IF validationResult.value = Bool(FALSE)
            THEN Reject(cfg, key, called, FailedValidationMsg(key))
            ELSE IF validationResult.value.t = "string"
            THEN Reject(cfg, key, called, ValidationErrorMsg(key, validationResult.value.s))
            ELSE [called EXCEPT
                     !.logEntries = Append(@, SuccessEntry(key, st.final[key]))]

\* Mutant of TryBlock: the validator is invoked on the raw value before the
\* checks, besides its invocation after them.
TryBlockValidatingFirst(key, schemaValue, rawValue, cfg, st) ==
    LET early == IF schemaValue.validate = "none" THEN st
                 ELSE [st EXCEPT !.calls = Append(@, <<key, rawValue>>)]
    IN  IF IsUnset(rawValue)
        THEN IF HasDefault(schemaValue)
             THEN UseDefault(key, schemaValue, st)
             ELSE Reject(cfg, key, early, RequiredMsg(key))
        ELSE IF schemaValue.type = "enum"
        THEN IF ~schemaValue.hasValidValues
             THEN [early EXCEPT !.exc = NewError(EnumMissingMsg(key))]
             ELSE IF ~includes(schemaValue.validValues, rawValue)
             THEN Reject(cfg, key, early, MustBeOneOfMsg(key, schemaValue.validValues))
             ELSE ValidateStage(key, schemaValue, cfg,
                                [st EXCEPT !.final = Put(@, key, rawValue)])
        ELSE LET parsed == parseValue(rawValue.s, key, schemaValue) IN
             IF parsed.exc.raised
             THEN [early EXCEPT !.exc = parsed.exc]
             ELSE ValidateStage(key, schemaValue, cfg,
                                [st EXCEPT !.final = Put(@, key, parsed.value)])

\* The try block.
TryBlock(key, schemaValue, rawValue, cfg, st) ==
    IF IsUnset(rawValue)
    THEN IF HasDefault(schemaValue)
         THEN UseDefault(key, schemaValue, st)
         ELSE Reject(cfg, key, st, RequiredMsg(key))
    ELSE IF schemaValue.type = "enum"
    THEN IF ~schemaValue.hasValidValues
         THEN [st EXCEPT !.exc = NewError(EnumMissingMsg(key))]
         ELSE IF ~includes(schemaValue.validValues, rawValue)
         THEN Reject(cfg, key, st, MustBeOneOfMsg(key, schemaValue.validValues))
         ELSE ValidateStage(key, schemaValue, cfg,
                            [st EXCEPT !.final = Put(@, key, rawValue)])
    ELSE LET parsed == parseValue(rawValue.s, key, schemaValue) IN
         IF parsed.exc.raised
         THEN [st EXCEPT !.exc = parsed.exc]
         ELSE ValidateStage(key, schemaValue, cfg,
                            [st EXCEPT !.final = Put(@, key, parsed.value)])

\* Mutant of CatchBlock: the exception is recorded and never rethrown.
CatchBlockNoRethrow(cfg, key, st) ==
    IF ~st.exc.raised THEN st
    ELSE [st EXCEPT !.errors = Append(@, IF st.exc.isError THEN st.exc.message
                                         ELSE UnknownErrorMsg(key)),
                    !.exc = NoExc]

\* Mutant of CatchBlock: the exception is rethrown in either mode.
CatchBlockAlwaysRethrow(cfg, key, st) ==
    IF ~st.exc.raised THEN st
    ELSE [st EXCEPT !.errors = Append(@, IF st.exc.isError THEN st.exc.message
                                         ELSE UnknownErrorMsg(key))]

\* Mutant of CatchBlock: outside strict mode the exception is swallowed without
\* its message being recorded.
CatchBlockSwallowing(cfg, key, st) ==
    IF ~st.exc.raised THEN st
    ELSE IF Throws(cfg)
    THEN [st EXCEPT !.errors = Append(@, IF st.exc.isError THEN st.exc.message
                                         ELSE UnknownErrorMsg(key))]
    ELSE [st EXCEPT !.exc = NoExc]

\* The catch block: record the message; rethrow in strict mode.
CatchBlock(cfg, key, st) ==
    IF ~st.exc.raised THEN st
    ELSE LET message == IF st.exc.isError THEN st.exc.message ELSE UnknownErrorMsg(key)
         IN  [st EXCEPT !.errors = Append(@, message),
                        !.exc = IF Throws(cfg) THEN @ ELSE NoExc]

\* Mutant of LoopBody: with config.throw = false a value that is set is stored as
\* the text read from the environment, without coercion.
LoopBodyRawWhenLenient(key, schemaValue, rawValue, cfg, st) ==
    IF cfg.throw = "false" /\ ~IsUnset(rawValue) /\ schemaValue.type = "number"
    THEN [st EXCEPT !.final = Put(@, key, rawValue),
                    !.logEntries = Append(@, SuccessEntry(key, rawValue))]
    ELSE CatchBlock(cfg, key, TryBlock(key, schemaValue, rawValue, cfg, st))

\* One iteration: the try block, then the catch block.
LoopBody(key, schemaValue, rawValue, cfg, st) ==
    CatchBlock(cfg, key, TryBlock(key, schemaValue, rawValue, cfg, st))

-----------------------------------------------------------------------------
(* Logger: a buffer and the console it writes to *)

title(lg) ==
    [lg EXCEPT !.result = <<"ESC[1m", "ESC[34m", " ********", "packageJson.name",
                            " * v", "packageJson.version", "******** ", "ESC[0m", "\n">>]

red(lg, message) == [lg EXCEPT !.result = <<"ESC[31m">> \o message \o <<"ESC[0m">>]

green(lg, message) == [lg EXCEPT !.result = <<"ESC[32m">> \o message \o <<"ESC[0m">>]

blue(lg, message) == [lg EXCEPT !.result = <<"ESC[34m">> \o message \o <<"ESC[0m">>]

cyan(lg, message) == [lg EXCEPT !.result = <<"ESC[36m">> \o message \o <<"ESC[0m">>]

newLine(lg, times) == [lg EXCEPT !.result = @ \o [p \in 1..times |-> "\n"]]

\* console.log(this.result); this.result = ''
log(lg) == [result |-> <<>>, out |-> Append(lg.out, lg.result)]

\* logEntries.map(entry => logger.cyan(entry).log())
RECURSIVE LogEntries(_, _)
LogEntries(lg, entries) ==
    IF entries = <<>> THEN lg
    ELSE LogEntries(log(cyan(lg, Head(entries))), Tail(entries))

\* if (config.debugMode) { ... }
DebugOutput(cfg, entries, lg) ==
    IF DebugMode(cfg)
    THEN LET titled == log(title(lg))
             listed == IF Len(entries) > 0
                       THEN LogEntries(log(blue(titled, <<"Environment variables:">>)),
                                       entries)
                       ELSE titled
         IN  log(newLine(listed, 1))
    ELSE lg

\* Mutant of Conclude: in accumulate mode the errors are dropped without a report.
ConcludeSilent(cfg, errs, lg) ==
    IF Len(errs) > 0 /\ Throws(cfg)
    THEN [lg |-> lg, exc |-> NewError(AggregateMsg(errs))]
    ELSE IF Len(errs) = 0 /\ DebugMode(cfg)
         THEN [lg |-> log(green(lg, <<"Environment validated successfully">>)),
               exc |-> NoExc]
         ELSE [lg |-> lg, exc |-> NoExc]

\* The end of defineEnv: the accumulated errors, then the return.
\* Yields the logger, the exception thrown (if any) and whether final is returned.
Conclude(cfg, errs, lg) ==
    IF Len(errs) > 0
    THEN IF Throws(cfg)
         THEN [lg |-> lg, exc |-> NewError(AggregateMsg(errs))]
         ELSE [lg |-> log(red(lg, AggregateMsg(errs))), exc |-> NoExc]
    ELSE IF DebugMode(cfg)
         THEN [lg |-> log(green(lg, <<"Environment validated successfully">>)),
               exc |-> NoExc]
         ELSE [lg |-> lg, exc |-> NoExc]

-----------------------------------------------------------------------------
(* The state machine of one defineEnv call *)

FieldSpecsFor(n) == IF n = 1 THEN AllFieldSpecs ELSE CoreFieldSpecs

RawValuesFor(n) == IF n = 1 THEN RawValues ELSE CoreRawValues

\* No call has ended yet.
NoCall == [pc |-> "none", result |-> <<>>, thrown |-> NoExc, calls |-> <<>>, console |-> <<>>]

Init ==
    /\ \E n \in 0..MaxFields :
          /\ schema \in [1..n -> FieldSpecsFor(n)]
          /\ env \in [{KeyNames[k] : k \in 1..n} -> RawValuesFor(n)]
    /\ config \in Configs
    /\ pc = "loop"
    /\ i = 1
    /\ final = <<>>
    /\ errors = <<>>
    /\ logEntries = <<>>
    /\ calls = <<>>
    /\ console = <<>>
    /\ loggerResult = <<>>
    /\ thrown = NoExc
    /\ result = <<>>
    /\ call = 1
    /\ firstCall = NoCall

\* Mutant of ProcessField: the iteration also writes the text of the value it
\* resolved back to process.env[key].
ProcessFieldExporting ==
    /\ pc = "loop"
    /\ i <= Len(schema)
    /\ LET key == KeyNames[i]
           st == LoopBody(key, schema[i], env[key], config,
                          [final |-> final, errors |-> errors,
                           logEntries |-> logEntries, calls |-> calls, exc |-> NoExc])
       IN  /\ final' = st.final
           /\ errors' = st.errors
           /\ logEntries' = st.logEntries
           /\ calls' = st.calls
           /\ thrown' = st.exc
           /\ pc' = IF st.exc.raised THEN "thrown" ELSE "loop"
           /\ i' = IF st.exc.raised THEN i ELSE i + 1
           /\ env' = IF key \in DOMAIN st.final /\ st.final[key] # Undefined
                     THEN [env EXCEPT ![key] = Str(StringOf(st.final[key]))]
                     ELSE env
    /\ UNCHANGED <<schema, config, console, loggerResult, result, call, firstCall>>

\* One iteration of for (const [key, schemaValue] of Object.entries(schema)).
ProcessField ==
    /\ pc = "loop"
    /\ i <= Len(schema)
    /\ LET key == KeyNames[i]
           st == LoopBody(key, schema[i], env[key], config,
                          [final |-> final, errors |-> errors,
                           logEntries |-> logEntries, calls |-> calls, exc |-> NoExc])
       IN  /\ final' = st.final
           /\ errors' = st.errors
           /\ logEntries' = st.logEntries
           /\ calls' = st.calls
           /\ thrown' = st.exc
           /\ pc' = IF st.exc.raised THEN "thrown" ELSE "loop"
           /\ i' = IF st.exc.raised THEN i ELSE i + 1
    /\ UNCHANGED <<schema, env, config, console, loggerResult, result, call, firstCall>>

\* The loop has gone through every entry.
EndLoop ==
    /\ pc = "loop"
    /\ i > Len(schema)
    /\ pc' = "debug"
    /\ UNCHANGED <<schema, env, config, i, final, errors, logEntries, calls, console,
                   loggerResult, thrown, result, call, firstCall>>

\* Optional debug logging.
DebugLog ==
    /\ pc = "debug"
    /\ LET lg == DebugOutput(config, logEntries, [result |-> loggerResult, out |-> console])
       IN  /\ console' = lg.out
           /\ loggerResult' = lg.result
    /\ pc' = "report"
    /\ UNCHANGED <<schema, env, config, i, final, errors, logEntries, calls, thrown,
                   result, call, firstCall>>

\* The accumulated errors are thrown or logged, and final is returned.
Report ==
    /\ pc = "report"
    /\ LET end == Conclude(config, errors, [result |-> loggerResult, out |-> console])
       IN  /\ console' = end.lg.out
           /\ loggerResult' = end.lg.result
           /\ thrown' = end.exc
           /\ pc' = IF end.exc.raised THEN "thrown" ELSE "returned"
           /\ result' = IF end.exc.raised THEN result ELSE final
    /\ UNCHANGED <<schema, env, config, i, final, errors, logEntries, calls, call, firstCall>>

Next == ProcessField \/ EndLoop \/ DebugLog \/ Report

Spec == Init /\ [][Next]_vars

\* Mutant of CallAgain: the error list outlives the call (a module-level array
\* instead of the local of line 269).
CallAgainKeepingErrors ==
    /\ call = 1
    /\ pc \in {"returned", "thrown"}
    /\ firstCall' = [pc |-> pc, result |-> result, thrown |-> thrown, calls |-> calls,
                 console |-> console]
    /\ call' = 2
    /\ pc' = "loop"
    /\ i' = 1
    /\ final' = <<>>
    /\ logEntries' = <<>>
    /\ calls' = <<>>
    /\ thrown' = NoExc
    /\ result' = <<>>
    /\ UNCHANGED <<schema, env, config, errors, console, loggerResult>>

\* The program calls defineEnv(schema, config) a second time, once the first call
\* has returned or its exception has been caught: the locals of lines 268-270
\* are new, while the console and the singleton logger are the ones the first
\* call left.
CallAgain ==
    /\ call = 1
    /\ pc \in {"returned", "thrown"}
    /\ firstCall' = [pc |-> pc, result |-> result, thrown |-> thrown, calls |-> calls,
                 console |-> console]
    /\ call' = 2
    /\ pc' = "loop"
    /\ i' = 1
    /\ final' = <<>>
    /\ errors' = <<>>
    /\ logEntries' = <<>>
    /\ calls' = <<>>
    /\ thrown' = NoExc
    /\ result' = <<>>
    /\ UNCHANGED <<schema, env, config, console, loggerResult>>

NextTwice == Next \/ CallAgain

\* A program that calls defineEnv up to twice with the same arguments.
SpecTwice == Init /\ [][NextTwice]_vars

-----------------------------------------------------------------------------
(* Vocabulary of the properties *)

Range(seq) == {seq[p] : p \in 1..Len(seq)}

\* The text holds the part (as message.includes(part), or toThrow(part) in a test).
Contains(text, part) ==
    \E p \in 1..(Len(text) - Len(part) + 1) : SubSeq(text, p, p + Len(part) - 1) = part

\* Field k has been through the loop body (in fail-fast mode the field that threw
\* is the one the loop stopped at).
Processed(k) ==
    /\ k \in 1..Len(schema)
    /\ k < i \/ (k = i /\ pc = "thrown")

\* The call is over: it returned or threw.
Ended == pc \in {"returned", "thrown"}

\* The error messages that name field k.
ErrorsNaming(k) == {e \in Range(errors) : Contains(e, <<KeyNames[k]>>)}

\* The lines of a text: its pieces between "\n" tokens.
RECURSIVE SplitLines(_)
SplitLines(text) ==
    IF \A p \in 1..Len(text) : text[p] # "\n" THEN <<text>>
    ELSE LET cut == CHOOSE p \in 1..Len(text) :
                        text[p] = "\n" /\ \A q \in 1..(p - 1) : text[q] # "\n"
         IN  <<SubSeq(text, 1, cut - 1)>> \o SplitLines(SubSeq(text, cut + 1, Len(text)))

\* The console lines that carry the aggregated failure report.
ReportLines == {p \in 1..Len(console) :
                   Contains(console[p], <<"Environment validation failed:">>)}

-----------------------------------------------------------------------------
(* C1 *)

\* C1: with config.throw unset or true, the first field that produces an error
\* ends the call: the error thrown carries that field's single message, every
\* earlier field had succeeded, no later field has been looked up, coerced or
\* validated, and no mapping is returned.
C1_FailFastStopsAtFirstError ==
    Throws(config) =>
        /\ (errors # <<>>) <=> (pc = "thrown")
        /\ pc = "thrown" =>
              /\ thrown.raised
              /\ Len(errors) = 1
              /\ thrown.isError => thrown.message = errors[1]
              /\ i \in 1..Len(schema)
              /\ Len(logEntries) = i - 1
              /\ DOMAIN final \subseteq {KeyNames[k] : k \in 1..i}
              /\ \A c \in Range(calls) : c[1] \in {KeyNames[k] : k \in 1..i}
              /\ result = <<>>
        /\ pc = "returned" => errors = <<>>

\* A two-field schema whose first field threw by default (throw unset).
C1_Witness ==
    /\ config.throw = "unset"
    /\ pc = "thrown"
    /\ Len(schema) = 2
    /\ i = 1

-----------------------------------------------------------------------------
(* C2 *)

C2_State ==
    config.throw = "false" =>
        /\ pc # "loop" =>
              /\ i = Len(schema) + 1
              /\ Len(errors) + Len(logEntries) = Len(schema)
        /\ \A a, b \in 1..Len(errors) :
              a < b => \A ka, kb \in 1..Len(schema) :
                          (Contains(errors[a], <<KeyNames[ka]>>)
                             /\ Contains(errors[b], <<KeyNames[kb]>>)) => ka < kb
        /\ (pc = "returned" /\ errors # <<>>) =>
              /\ console # <<>>
              /\ LET lines == SplitLines(console[Len(console)]) IN
                 /\ Len(lines) = Len(errors) + 1
                 /\ \A k \in 1..Len(errors) : Contains(lines[k + 1], errors[k])

C2_Step ==
    (config.throw = "false" /\ pc = "loop" /\ i <= Len(schema)) =>
        /\ i' = i + 1
        /\ pc' = "loop"
        /\ \/ /\ errors' = errors
              /\ Len(logEntries') = Len(logEntries) + 1
           \/ /\ logEntries' = logEntries
              /\ Len(errors') = Len(errors) + 1
              /\ SubSeq(errors', 1, Len(errors)) = errors

\* C2: with config.throw = false every field is attempted whatever happened to
\* the earlier ones; each attempt appends either nothing or exactly one message
\* to the errors, at the end; and the report that is logged has one line per
\* message after its heading, in the order of the fields.
C2_AccumulateOneMessagePerFailingField == [](C2_State) /\ [][C2_Step]_vars

\* Both fields of a two-field schema failed and the report was written.
C2_Witness ==
    /\ config.throw = "false"
    /\ pc = "returned"
    /\ Len(schema) = 2
    /\ Len(errors) = 2
    /\ ErrorsNaming(1) # {}
    /\ ErrorsNaming(2) # {}

-----------------------------------------------------------------------------
(* C3 *)

\* C3 as claimed: with config.throw = false and an accumulated error the caller
\* observes a failure, not a normal return.
C3_Original == (config.throw = "false" /\ errors # <<>>) => pc # "returned"

\* C3 as amended: with config.throw = false and an accumulated error, the
\* aggregated report is written exactly once, by the last step, after every field
\* has been attempted; it lists every message; and the call returns the mapping
\* normally instead of failing.
C3_ReportedOnceThenReturns ==
    (config.throw = "false" /\ errors # <<>>) =>
        /\ pc # "thrown"
        /\ pc # "returned" => ReportLines = {}
        /\ pc = "returned" =>
              /\ i = Len(schema) + 1
              /\ ReportLines = {Len(console)}
              /\ \A e \in Range(errors) : Contains(console[Len(console)], e)
              /\ result = final

\* An accumulate-mode call with two errors has returned.
C3_Witness ==
    /\ config.throw = "false"
    /\ pc = "returned"
    /\ Len(errors) = 2
    /\ ReportLines # {}

-----------------------------------------------------------------------------
(* C4 *)

\* C4: with config.throw = false nothing is ever thrown: whatever fails (missing
\* value, enum, coercion, validator, even a validator or a malformed enum that
\* raises), no exception leaves the loop or the final report; the call can only
\* end by returning the mapping, and a call that had failures has logged them.
C4_NeverThrowsWhenThrowFalse ==
    config.throw = "false" =>
        /\ pc \in {"loop", "debug", "report", "returned"}
        /\ ~thrown.raised
        /\ pc = "returned" =>
              /\ result = final
              /\ errors # <<>> => ReportLines # {}

\* A call that met an exception inside the loop (a validator that throws, or an
\* enum without validValues) and still returned.
C4_Witness ==
    /\ config.throw = "false"
    /\ pc = "returned"
    /\ Len(schema) = 1
    /\ errors # <<>>
    /\ \/ schema[1].validate \in {"throwError", "throwOther"} /\ calls # <<>>
       \/ schema[1].type = "enum" /\ ~schema[1].hasValidValues

-----------------------------------------------------------------------------
(* C5 *)

\* What the loop body does with field k when it is the only thing that happens.
Alone(k) ==
    LoopBody(KeyNames[k], schema[k], env[KeyNames[k]], config,
             [final |-> <<>>, errors |-> <<>>, logEntries |-> <<>>, calls |-> <<>>,
              exc |-> NoExc])

\* C5: with config.throw = false, a field that does not fail has, in the mapping
\* built so far and in the mapping returned, the value it gets when processed on
\* its own: what its siblings did makes no difference.
C5_NonFailingFieldIndependent ==
    config.throw = "false" =>
        \A k \in 1..Len(schema) :
            (Processed(k) /\ Alone(k).errors = <<>>) =>
                /\ KeyNames[k] \in DOMAIN final
                /\ final[KeyNames[k]] = Alone(k).final[KeyNames[k]]
                /\ pc = "returned" =>
                      /\ KeyNames[k] \in DOMAIN result
                      /\ result[KeyNames[k]] = final[KeyNames[k]]

\* A returned mapping with a parsed first field and a failed second one.
C5_Witness ==
    /\ config.throw = "false"
    /\ pc = "returned"
    /\ Len(schema) = 2
    /\ Alone(1).errors = <<>>
    /\ Alone(2).errors # <<>>
    /\ result[KeyNames[1]] = Num(42)

-----------------------------------------------------------------------------
(* C6 *)

\* C6 as claimed: in both modes the caller never receives a mapping that holds
\* parsed fields from a run in which a sibling failed.
C6_Original ==
    ~(/\ pc = "returned"
      /\ errors # <<>>
      /\ \E k \in 1..Len(schema) :
            /\ Alone(k).errors = <<>>
            /\ KeyNames[k] \in DOMAIN result
            /\ result[KeyNames[k]] # Undefined)

\* C6 as amended: in fail-fast mode (config.throw unset or true) the caller never
\* receives a mapping from a run in which a field failed: the error on field N
\* ends the call by a throw and the fields 1..N-1 already resolved are not
\* returned.  (In accumulate mode the mapping is returned with them.)
C6_FailFastDiscardsResolvedFields ==
    Throws(config) =>
        /\ pc = "returned" => errors = <<>>
        /\ errors # <<>> =>
              /\ pc = "thrown"
              /\ result = <<>>

\* The second field threw after the first had been resolved.
C6_Witness ==
    /\ Throws(config)
    /\ pc = "thrown"
    /\ i = 2
    /\ KeyNames[1] \in DOMAIN final
    /\ final[KeyNames[1]] # Undefined
    /\ result = <<>>

-----------------------------------------------------------------------------
(* C7 *)

\* The key is absent from the environment, or its value is the empty string.
AbsentOrEmpty(k) == env[KeyNames[k]] \in {Undefined, Str(<<>>)}

DefaultDefined(k) == schema[k].hasDefault /\ schema[k].defaultValue # Undefined

IsRequiredError(e, k) ==
    Contains(e, <<KeyNames[k]>>) /\ Contains(e, <<"is required but not set">>)

\* C7: whatever the kind of the field, an absent key and an empty value are both
\* unset: the field takes its default when one is defined (without any error),
\* and otherwise gets the required-field error.
C7_AbsentAndEmptyAreUnset ==
    \A k \in 1..Len(schema) :
        (Processed(k) /\ AbsentOrEmpty(k)) =>
            IF DefaultDefined(k)
            THEN /\ KeyNames[k] \in DOMAIN final
                 /\ final[KeyNames[k]] = schema[k].defaultValue
                 /\ ErrorsNaming(k) = {}
                 /\ ~(pc = "thrown" /\ i = k)
            ELSE /\ \E e \in Range(errors) : IsRequiredError(e, k)
                 /\ Throws(config) => (pc = "thrown" /\ IsRequiredError(thrown.message, k))

\* An empty value took the default of a non-string field.
C7_Witness ==
    /\ pc = "returned"
    /\ Len(schema) = 1
    /\ env[KeyNames[1]] = Str(<<>>)
    /\ schema[1].type = "boolean"
    /\ DefaultDefined(1)
    /\ result[KeyNames[1]] = schema[1].defaultValue

-----------------------------------------------------------------------------
(* C8 *)

IsDefaultEntry(entry, k) ==
    Contains(entry, <<KeyNames[k], "=">>) /\ Contains(entry, <<" (using default)">>)

\* C8: a field with a default d whose raw variable is unset has the value d
\* itself, of whatever kind d is and whether or not d is among validValues; and
\* a field whose raw variable is set never takes its default.
C8_DefaultUsedAsIs ==
    \A k \in 1..Len(schema) :
        Processed(k) =>
            /\ (DefaultDefined(k) /\ AbsentOrEmpty(k)) =>
                  /\ KeyNames[k] \in DOMAIN final
                  /\ final[KeyNames[k]] = schema[k].defaultValue
                  /\ \E entry \in Range(logEntries) : IsDefaultEntry(entry, k)
                  /\ pc = "returned" => result[KeyNames[k]] = schema[k].defaultValue
            /\ ~AbsentOrEmpty(k) =>
                  /\ \A entry \in Range(logEntries) : ~IsDefaultEntry(entry, k)
                  /\ (KeyNames[k] \in DOMAIN final /\ final[KeyNames[k]] # Undefined) =>
                        final[KeyNames[k]] =
                            IF schema[k].type = "enum"
                            THEN env[KeyNames[k]]
                            ELSE parseValue(env[KeyNames[k]].s, KeyNames[k], schema[k]).value

\* A number field returned its string default, which is no number.
C8_Witness ==
    /\ pc = "returned"
    /\ Len(schema) = 1
    /\ schema[1].type = "number"
    /\ schema[1].defaultValue = Str(<<"z", "z">>)
    /\ env[KeyNames[1]] = Undefined
    /\ result[KeyNames[1]] = Str(<<"z", "z">>)

-----------------------------------------------------------------------------
(* C9 *)

\* C9: with throw enabled, a processed field is unset and without a default
\* (none given, or undefined given) exactly when the call threw, at that field,
\* the error that names it and says 'is required but not set'; the field's type,
\* validValues and validator play no part.
C9_RequiredWhenNoDefault ==
    Throws(config) =>
        \A k \in 1..Len(schema) :
            Processed(k) =>
                ((AbsentOrEmpty(k) /\ ~DefaultDefined(k))
                    <=> (/\ pc = "thrown"
                         /\ i = k
                         /\ thrown.isError
                         /\ IsRequiredError(thrown.message, k)))

\* defaultValue: undefined was given, the variable is not set, and the call threw.
C9_Witness ==
    /\ config.throw = "true"
    /\ pc = "thrown"
    /\ Len(schema) = 1
    /\ schema[1].hasDefault
    /\ schema[1].defaultValue = Undefined
    /\ env[KeyNames[1]] = Undefined
    /\ IsRequiredError(thrown.message, 1)

-----------------------------------------------------------------------------
(* C10 *)

\* The text is a decimal numeral: a non-empty run of digits.
IsDecimalNumeral(text) == text # <<>> /\ \A p \in 1..Len(text) : IsDigit(text[p])

IsNumberError(e, text) ==
    Contains(e, <<"Cannot parse \"">> \o text \o <<"\" as number">>)

\* C10: a number field with a set raw value has the number the text denotes when
\* the text is a decimal numeral, and otherwise (non-numeric text, 'Infinity',
\* white space only) gets the 'Cannot parse "<raw>" as number' error and no
\* typed value.
C10_Original ==
    \A k \in 1..Len(schema) :
        (Processed(k) /\ schema[k].type = "number" /\ ~AbsentOrEmpty(k)) =>
            LET text == env[KeyNames[k]].s IN
            IF IsDecimalNumeral(text)
            THEN KeyNames[k] \in DOMAIN final =>
                    final[KeyNames[k]] \in {Num(DecimalValue(text)), Undefined}
            ELSE /\ \E e \in Range(errors) : IsNumberError(e, text)
                 /\ KeyNames[k] \notin DOMAIN final

-----------------------------------------------------------------------------
(* C11 *)

\* The text spells the word, letter by letter, in any mix of cases.
Spells(text, lowerWord, upperWord) ==
    /\ Len(text) = Len(lowerWord)
    /\ \A p \in 1..Len(text) : text[p] \in {lowerWord[p], upperWord[p]}

IsTrueText(text) ==
    text = <<"1">> \/ Spells(text, <<"t", "r", "u", "e">>, <<"T", "R", "U", "E">>)

IsFalseText(text) ==
    text = <<"0">>
        \/ Spells(text, <<"f", "a", "l", "s", "e">>, <<"F", "A", "L", "S", "E">>)

IsBooleanError(e, text) ==
    Contains(e, <<"Cannot parse \"">> \o text \o <<"\" as boolean">>)

\* C11: a boolean field with a set raw value is true for 'true' or '1' and false
\* for 'false' or '0', whatever the case of the letters; every other text gets
\* the 'Cannot parse "<raw>" as boolean' error and no typed value.
C11_BooleanCoercion ==
    \A k \in 1..Len(schema) :
        (Processed(k) /\ schema[k].type = "boolean" /\ ~AbsentOrEmpty(k)) =>
            LET text == env[KeyNames[k]].s
                key == KeyNames[k]
            IN  IF IsTrueText(text) \/ IsFalseText(text)
                THEN /\ key \in DOMAIN final
                     /\ final[key] \in {Bool(IsTrueText(text)), Undefined}
                     /\ \A e \in Range(errors) : ~IsBooleanError(e, text)
                     /\ schema[k].validate = "none" => final[key] = Bool(IsTrueText(text))
                ELSE /\ \E e \in Range(errors) : IsBooleanError(e, text)
                     /\ key \notin DOMAIN final
                     /\ \A c \in Range(calls) : c[1] # key

\* 'TRUE' was returned as true and, in another call, 'False' as false.
C11_Witness ==
    /\ pc = "returned"
    /\ Len(schema) = 1
    /\ schema[1].type = "boolean"
    /\ \/ env[KeyNames[1]] = Str(<<"T", "R", "U", "E">>) /\ result[KeyNames[1]] = Bool(TRUE)
       \/ env[KeyNames[1]] = Str(<<"F", "a", "l", "s", "e">>)
              /\ result[KeyNames[1]] = Bool(FALSE)

-----------------------------------------------------------------------------
(* C12 *)

\* The raw text is one of the string members of validValues.
IsStringMember(text, validValues) ==
    \E p \in 1..Len(validValues) :
        validValues[p].t = "string" /\ validValues[p].s = text

\* The members of validValues written out and separated by ", ".
RECURSIVE CommaJoined(_)
CommaJoined(validValues) ==
    IF validValues = <<>> THEN <<>>
    ELSE LET first == IF Head(validValues).t = "string"
                      THEN Head(validValues).s
                      ELSE DecimalDigits(Head(validValues).n)
         IN  IF Len(validValues) = 1 THEN first
             ELSE first \o <<", ">> \o CommaJoined(Tail(validValues))

IsEnumError(e, validValues) ==
    Contains(e, <<"must be one of: ">> \o CommaJoined(validValues))

\* C12: an enum field with a set raw value is accepted exactly when the raw text
\* equals a string member of validValues (the number 1 does not match '1'); an
\* accepted field has the raw text itself as its value; a refused one gets the
\* error 'must be one of: ' followed by the members joined with ', '.
C12_EnumMembership ==
    \A k \in 1..Len(schema) :
        (/\ Processed(k)
         /\ schema[k].type = "enum"
         /\ schema[k].hasValidValues
         /\ ~AbsentOrEmpty(k)) =>
            LET text == env[KeyNames[k]].s
                key == KeyNames[k]
            IN  IF IsStringMember(text, schema[k].validValues)
                THEN /\ key \in DOMAIN final
                     /\ final[key] \in {Str(text), Undefined}
                     /\ \A e \in Range(errors) : ~IsEnumError(e, schema[k].validValues)
                     /\ schema[k].validate = "none" => final[key] = Str(text)
                ELSE /\ \E e \in Range(errors) : IsEnumError(e, schema[k].validValues)
                     /\ key \in DOMAIN final => final[key] = Undefined
                     /\ \A c \in Range(calls) : c[1] # key

\* The raw text '1' was refused by validValues [1, 'dev'].
C12_Witness ==
    /\ Ended
    /\ Len(schema) = 1
    /\ schema[1].type = "enum"
    /\ schema[1].validValues = <<Num(1), Str(Dev)>>
    /\ env[KeyNames[1]] = Str(<<"1">>)
    /\ \E e \in Range(errors) : Contains(e, <<"must be one of: ", "1", ", ", "d", "e", "v">>)

-----------------------------------------------------------------------------
(* C13 *)

\* The validator of field k has been invoked in this call.
Invoked(k) == \E c \in Range(calls) : c[1] = KeyNames[k]

\* The value the validator of field k was invoked on.
ValidatedValue(k) == (CHOOSE c \in Range(calls) : c[1] = KeyNames[k])[2]

EndsWith(text, part) ==
    /\ Len(part) <= Len(text)
    /\ SubSeq(text, Len(text) - Len(part) + 1, Len(text)) = part

NamesField(e, k) == Contains(e, <<"Environment variable \"", KeyNames[k], "\" ">>)

\* C13: when the validator of a field is invoked and returns false, the error is
\* '<name> failed validation'; when it returns a string, the empty one included,
\* the error is '<name> validation error: <string>'; when it returns anything
\* else (true, undefined) the field has no error and the value it was invoked
\* on is the field's value, logged as '<name>=<value>'.
C13_ValidatorOutcome ==
    \A k \in 1..Len(schema) :
        (Processed(k) /\ Invoked(k)) =>
            LET key == KeyNames[k]
                validator == schema[k].validate
            IN  /\ validator = "false" =>
                      \E e \in Range(errors) :
                          NamesField(e, k) /\ EndsWith(e, <<"failed validation">>)
                /\ validator = "message" =>
                      \E e \in Range(errors) :
                          NamesField(e, k)
                              /\ EndsWith(e, <<"validation error: ", "too short">>)
                /\ validator = "empty" =>
                      \E e \in Range(errors) :
                          NamesField(e, k) /\ EndsWith(e, <<"validation error: ">>)
                /\ validator \in {"true", "undefined"} =>
                      /\ ErrorsNaming(k) = {}
                      /\ final[key] = ValidatedValue(k)
                      /\ <<key, "=">> \o StringOf(ValidatedValue(k)) \in Range(logEntries)
                      /\ pc = "returned" => result[key] = ValidatedValue(k)

\* A validator returned the empty string, and that is a validation error.
C13_Witness ==
    /\ Ended
    /\ Len(schema) = 1
    /\ schema[1].validate = "empty"
    /\ Invoked(1)
    /\ \E e \in Range(errors) : EndsWith(e, <<"validation error: ">>)

-----------------------------------------------------------------------------
(* C14 *)

\* C14: the validator of a field is invoked on the field's typed value both when
\* the value was coerced from the raw text and when it was taken from
\* defaultValue, and a default the validator rejects gives a validation error.
C14_Original ==
    \A k \in 1..Len(schema) :
        (Processed(k) /\ schema[k].validate # "none") =>
            LET key == KeyNames[k] IN
            /\ (AbsentOrEmpty(k) /\ DefaultDefined(k)) =>
                  /\ Invoked(k)
                  /\ ValidatedValue(k) = schema[k].defaultValue
                  /\ schema[k].validate \in {"false", "message", "empty"} =>
                        \E e \in Range(errors) : NamesField(e, k)
            /\ (~AbsentOrEmpty(k) /\ key \in DOMAIN final /\ final[key] # Undefined) =>
                  Invoked(k)

-----------------------------------------------------------------------------
(* C15 *)

MalformedEnum(k) == schema[k].type = "enum" /\ ~schema[k].hasValidValues

IsMissingValidValuesError(e, k) ==
    e = <<"Enum \"", KeyNames[k], "\" missing validValues">>

\* C15 as claimed: an enum field that omits validValues makes defineEnv throw,
\* whether config.throw is true or false.
C15_Original ==
    \A k \in 1..Len(schema) :
        (Processed(k) /\ MalformedEnum(k)) => (pc = "thrown" /\ i = k)

\* C15 as amended: an enum field that omits validValues fails, with the error
\* 'Enum "<name>" missing validValues', only when its raw value is set, and the
\* error is propagated like any other: thrown when config.throw is unset or true,
\* accumulated (no value for the field, the call goes on and returns) when
\* config.throw is false.  When the raw value is unset the field takes its
\* default or gets the required-field error, and the omission goes unnoticed.
C15_MalformedEnumFollowsThrowSetting ==
    \A k \in 1..Len(schema) :
        (Processed(k) /\ MalformedEnum(k)) =>
            LET key == KeyNames[k] IN
            IF AbsentOrEmpty(k)
            THEN /\ \A e \in Range(errors) : ~IsMissingValidValuesError(e, k)
                 /\ DefaultDefined(k) => (key \in DOMAIN final
                                            /\ final[key] = schema[k].defaultValue)
                 /\ ~DefaultDefined(k) => \E e \in Range(errors) : IsRequiredError(e, k)
            ELSE /\ \E e \in Range(errors) : IsMissingValidValuesError(e, k)
                 /\ key \notin DOMAIN final
                 /\ \A c \in Range(calls) : c[1] # key
                 /\ Throws(config) =>
                       /\ pc = "thrown"
                       /\ i = k
                       /\ IsMissingValidValuesError(thrown.message, k)
                 /\ ~Throws(config) =>
                       /\ pc # "thrown"
                       /\ pc = "returned" => key \notin DOMAIN result

\* With config.throw = false the malformed enum was reported and the call returned.
C15_Witness ==
    /\ config.throw = "false"
    /\ pc = "returned"
    /\ Len(schema) = 1
    /\ MalformedEnum(1)
    /\ env[KeyNames[1]] = Str(Dev)
    /\ \E e \in Range(errors) : IsMissingValidValuesError(e, 1)

-----------------------------------------------------------------------------
(* C16 *)

\* The entry has been written to the console.
Emitted(entry) == \E p \in 1..Len(console) : Contains(console[p], entry)

\* C16: with debugMode enabled, when the call is over every log entry collected
\* during it has been emitted, whether or not a field produced an error and
\* whatever the throw setting.
C16_Original ==
    (DebugMode(config) /\ Ended) => \A entry \in Range(logEntries) : Emitted(entry)

-----------------------------------------------------------------------------
(* C17 *)

\* debugMode is false or omitted.
DebugDisabled == config.debugMode \in {"unset", "false"}

\* C17 as claimed: with debugMode disabled nothing at all is written to the
\* console, for any schema, environment and throw setting.
C17_Original == DebugDisabled => console = <<>>

\* C17 as amended: with debugMode disabled nothing is written to the console,
\* except that a call with config.throw = false that accumulated at least one
\* error writes the aggregated error report (and only that) before it returns.
C17_SilentExceptAccumulatedReport ==
    DebugDisabled =>
        \/ console = <<>>
        \/ /\ config.throw = "false"
           /\ errors # <<>>
           /\ pc = "returned"
           /\ Len(console) = 1
           /\ ReportLines = {1}
           /\ \A e \in Range(errors) : Contains(console[1], e)

\* A call with debugMode off collected log entries and returned without output.
C17_Witness ==
    /\ config.debugMode = "unset"
    /\ pc = "returned"
    /\ Len(logEntries) = 2
    /\ console = <<>>

-----------------------------------------------------------------------------
(* C18 *)

\* C18: no step of a defineEnv call changes the environment (nor the schema or
\* the config it was given), so on every path, normal return, fail-fast throw
\* or accumulate-mode return, the environment after the call is the environment
\* before it.
C18_EnvironmentNeverMutated ==
    [][env' = env /\ schema' = schema /\ config' = config]_vars

\* A call over a field that took its default and a field read from the
\* environment has ended, by a return or by a throw.
C18_Witness ==
    /\ Ended
    /\ \E k \in 1..Len(schema) :
          Processed(k) /\ AbsentOrEmpty(k) /\ DefaultDefined(k)
    /\ \E k \in 1..Len(schema) : Processed(k) /\ ~AbsentOrEmpty(k)

-----------------------------------------------------------------------------
(* C19 *)

\* The lines the second call has written: the console without what the first
\* call left on it.
SecondCallLines == SubSeq(console, Len(firstCall.console) + 1, Len(console))

\* C19: a second defineEnv call with the same schema, config and environment
\* ends as the first did, with the same returned mapping or the same error,
\* the same validator invocations and the same lines written; and it starts
\* from nothing of the first: an empty mapping, error list, log-entry list and
\* logger buffer.
C19_SecondCallRepeatsFirst ==
    /\ (call = 2 /\ Ended) =>
          /\ pc = firstCall.pc
          /\ result = firstCall.result
          /\ thrown = firstCall.thrown
          /\ calls = firstCall.calls
          /\ SecondCallLines = firstCall.console
    /\ (call = 2 /\ pc = "loop" /\ i = 1) =>
          /\ final = <<>> /\ errors = <<>> /\ logEntries = <<>>
          /\ loggerResult = <<>>

\* A second call has returned after writing lines, the first having done so too.
C19_Witness ==
    /\ call = 2
    /\ pc = "returned"
    /\ errors # <<>>
    /\ result # <<>>
    /\ firstCall.console # <<>>
    /\ Len(console) = 2 * Len(firstCall.console)

-----------------------------------------------------------------------------
(* C20 *)

\* The value is of the kind the field declares (InferEnvType): a string, a
\* number, a boolean, a member of validValues; any value for another type.
OfDeclaredKind(schemaValue, value) ==
    CASE schemaValue.type = "string" -> value.t = "string"
      [] schemaValue.type = "number" -> value.t = "number"
      [] schemaValue.type = "boolean" -> value.t = "boolean"
      [] schemaValue.type = "enum" /\ schemaValue.hasValidValues ->
             value \in Range(schemaValue.validValues)
      [] OTHER -> TRUE

\* C20: whenever defineEnv returns a mapping, the mapping has exactly one entry
\* per schema field, and each entry is a value of the field's declared kind.
C20_Original ==
    pc = "returned" =>
        /\ DOMAIN result = KeysOf(schema)
        /\ \A k \in 1..Len(schema) :
              KeyNames[k] \in DOMAIN result =>
                  OfDeclaredKind(schema[k], result[KeyNames[k]])

-----------------------------------------------------------------------------
(* C21 *)

\* The whole loop of a call with the config cfg over the schema and environment
\* of this call, from field k on.
RECURSIVE RunFrom(_, _, _)
RunFrom(k, cfg, st) ==
    IF k > Len(schema) \/ st.exc.raised THEN st
    ELSE RunFrom(k + 1, cfg,
                 LoopBody(KeyNames[k], schema[k], env[KeyNames[k]], cfg, st))

UnderConfig(cfg) ==
    RunFrom(1, cfg, [final |-> <<>>, errors |-> <<>>, logEntries |-> <<>>,
                     calls |-> <<>>, exc |-> NoExc])

\* C21: when a call returns without any field having failed, the mapping it
\* returns is the mapping built, without error, under every other combination
\* of throw and debugMode (set or omitted) for the same schema and environment.
C21_ConfigDoesNotAffectValues ==
    (pc = "returned" /\ errors = <<>>) =>
        \A cfg \in Configs :
            /\ ~UnderConfig(cfg).exc.raised
            /\ UnderConfig(cfg).errors = <<>>
            /\ UnderConfig(cfg).final = result

\* A lenient, debugging call returned a coerced number and a default.
C21_Witness ==
    /\ pc = "returned"
    /\ errors = <<>>
    /\ config = [throw |-> "false", debugMode |-> "true"]
    /\ Len(schema) = 2
    /\ \E k \in 1..2 : result[KeyNames[k]] = Num(42)
    /\ \E k \in 1..2 : AbsentOrEmpty(k)

-----------------------------------------------------------------------------
(* C22 *)

\* Field k is unset and has no default to fall back on.
MissingRequired(k) == AbsentOrEmpty(k) /\ ~DefaultDefined(k)

\* Field k is a set enum field whose text is not among its validValues.
FailsMembership(k) ==
    /\ ~AbsentOrEmpty(k)
    /\ schema[k].type = "enum"
    /\ schema[k].hasValidValues
    /\ ~IsStringMember(env[KeyNames[k]].s, schema[k].validValues)

\* Field k is a set field of another type whose text could not be coerced.
FailsCoercion(k) ==
    /\ ~AbsentOrEmpty(k)
    /\ schema[k].type # "enum"
    /\ \E e \in Range(errors) :
          /\ Contains(e, <<" for \"", KeyNames[k]>>)
          /\ \/ IsNumberError(e, env[KeyNames[k]].s)
             \/ IsBooleanError(e, env[KeyNames[k]].s)
             \/ Contains(e, <<"Unknown type \"">>)

\* C22: within a field the checks run in the order missing/required, enum
\* membership or coercion, custom validation, each only after the earlier ones
\* passed. A field that is unset without a default gets the required-field
\* error and nothing else; the validator is never invoked for a field that is
\* unset without a default, fails membership or fails coercion; and when it is
\* invoked, it is on a set field's value that passed membership or coercion.
C22_ChecksInOrder ==
    \A k \in 1..Len(schema) :
        Processed(k) =>
            /\ MissingRequired(k) =>
                  /\ \A e \in ErrorsNaming(k) : IsRequiredError(e, k)
                  /\ ErrorsNaming(k) # {}
            /\ (MissingRequired(k) \/ FailsMembership(k) \/ FailsCoercion(k)) =>
                  ~Invoked(k)
            /\ Invoked(k) =>
                  /\ ~AbsentOrEmpty(k)
                  /\ schema[k].type \in {"string", "number", "boolean", "enum"}
                  /\ schema[k].type = "enum" => schema[k].hasValidValues
                  /\ OfDeclaredKind(schema[k], ValidatedValue(k))

\* A number field with a validator failed coercion in a call that went on.
C22_Witness ==
    /\ pc = "returned"
    /\ Len(schema) = 1
    /\ schema[1].type = "number"
    /\ schema[1].validate = "message"
    /\ FailsCoercion(1)
    /\ ~Invoked(1)

-----------------------------------------------------------------------------
(* C23 *)

\* Field k adds an error message when it is processed under this config.
ContributesError(k) == Alone(k).errors # <<>>

\* C23: with config.throw = false, every field that contributed an error
\* message has no defined value in the returned mapping (its key is absent or
\* maps to undefined), whatever the cause of the error.
C23_Original ==
    (pc = "returned" /\ config.throw = "false") =>
        \A k \in 1..Len(schema) :
            ContributesError(k) =>
                \/ KeyNames[k] \notin DOMAIN result
                \/ result[KeyNames[k]] = Undefined

-----------------------------------------------------------------------------
(* C24 *)

\* The number of fields the loop has gone through, the one that threw included.
NumProcessed == IF pc = "thrown" /\ i <= Len(schema) THEN i ELSE i - 1

\* Field k produced an error: a message or an exception.
ProducedError(k) == Alone(k).errors # <<>> \/ Alone(k).exc.raised

\* The log entry of a field that did not produce an error.
ExpectedEntry(k) ==
    IF AbsentOrEmpty(k)
    THEN <<KeyNames[k], "=">> \o StringOf(schema[k].defaultValue)
             \o <<" (using default)">>
    ELSE <<KeyNames[k], "=">> \o StringOf(final[KeyNames[k]])

\* The entries of fields 1..n, in schema order.
RECURSIVE ExpectedEntries(_)
ExpectedEntries(n) ==
    IF n = 0 THEN <<>>
    ELSE IF ProducedError(n) THEN ExpectedEntries(n - 1)
    ELSE Append(ExpectedEntries(n - 1), ExpectedEntry(n))

\* C24: the log entries are, in schema order, one per processed field that did
\* not produce an error: '<name>=<default> (using default)' for a field
\* resolved from its default and '<name>=<typed value>' for a field that passed
\* coercion and validation; a field that produced an error has no entry.
C24_LogEntriesInSchemaOrder == logEntries = ExpectedEntries(NumProcessed)

\* A call over a defaulted field and a coerced one has collected both entries.
C24_Witness ==
    /\ Ended
    /\ Len(schema) = 2
    /\ Len(logEntries) = 2
    /\ AbsentOrEmpty(1) /\ ~AbsentOrEmpty(2)
    /\ Contains(logEntries[1], <<" (using default)">>)
    /\ logEntries[2] = <<KeyNames[2], "=", "4", "2">>

-----------------------------------------------------------------------------
(* C25 *)

\* C25: with config.throw = false, once k fields have been processed the
\* accumulated errors and the collected log entries number k together: each
\* processed field added exactly one error message or exactly one log entry.
C25_OneErrorOrOneEntryPerField ==
    config.throw = "false" =>
        /\ pc # "thrown"
        /\ Len(errors) + Len(logEntries) = i - 1
        /\ \A k \in 1..(i - 1) :
              Len(Alone(k).errors) + Len(Alone(k).logEntries) = 1

\* Two fields processed: one left an error (an exception caught), one an entry.
C25_Witness ==
    /\ config.throw = "false"
    /\ pc = "returned"
    /\ Len(schema) = 2
    /\ Len(errors) = 1
    /\ Len(logEntries) = 1
    /\ \E k \in 1..2 : FailsCoercion(k)

-----------------------------------------------------------------------------
(* C26 *)

\* The declared type of field k is none of string, number, boolean, enum.
UnknownType(k) == schema[k].type \notin {"string", "number", "boolean", "enum"}

IsUnknownTypeError(e, k) ==
    Contains(e, <<"Unknown type \"", schema[k].type, "\" for \"", KeyNames[k], "\".">>)

\* C26 as claimed: a field of an unknown type gets the 'Unknown type' error
\* whenever it is processed, also when it is unset and has a default.
C26_Original ==
    \A k \in 1..Len(schema) :
        (Processed(k) /\ UnknownType(k)) =>
            \E e \in Range(errors) : IsUnknownTypeError(e, k)

\* C26 as amended: a field of an unknown type gets the 'Unknown type' error,
\* and no value, exactly when its raw value is set; when the raw value is unset
\* the type is not examined: the field takes its default without any error, or
\* without one gets the required-field error.
C26_UnknownTypeRejectedWhenSet ==
    \A k \in 1..Len(schema) :
        (Processed(k) /\ UnknownType(k)) =>
            /\ ~AbsentOrEmpty(k) =>
                  /\ \E e \in Range(errors) : IsUnknownTypeError(e, k)
                  /\ KeyNames[k] \notin DOMAIN final
                  /\ ~Invoked(k)
                  /\ Throws(config) <=> (pc = "thrown" /\ i = k)
            /\ AbsentOrEmpty(k) =>
                  /\ \A e \in Range(errors) : ~IsUnknownTypeError(e, k)
                  /\ DefaultDefined(k) =>
                        /\ errors = <<>>
                        /\ final[KeyNames[k]] = schema[k].defaultValue
                  /\ ~DefaultDefined(k) =>
                        \E e \in Range(errors) : IsRequiredError(e, k)

\* A set field of an unknown type was refused in a call that went on.
C26_Witness ==
    /\ pc = "returned"
    /\ Len(schema) = 1
    /\ UnknownType(1)
    /\ ~AbsentOrEmpty(1)
    /\ \E e \in Range(errors) : IsUnknownTypeError(e, 1)

====
